---------------------------- MODULE Spec2Model ----------------------------
(***************************************************************************)
(* A model of libmtd_legacy.c: the /proc/mtd scanner (proc_parse_start,    *)
(* proc_parse_next), the enumeration calls (legacy_dev_present,            *)
(* legacy_mtd_get_info), the capability probe (legacy_get_mtd_oobavail)    *)
(* and the descriptor assembly (legacy_get_dev_info, _info1, _info2).      *)
(*                                                                         *)
(* A behaviour is one call of one library function against one state of    *)
(* the world (the contents of /proc/mtd and the behaviour of the device    *)
(* node).  Bytes are one-character strings; the buffer is a sequence of    *)
(* bytes and a buffer offset o names element o + 1 of that sequence.       *)
(***************************************************************************)
EXTENDS Integers, Sequences, FiniteSets, TLC

(***************************************************************************)
(* Bounds of the model.                                                    *)
(***************************************************************************)
\* The largest number of device lines of a generated listing.
MaxLines == 2
\* Device numbers of the generated lines are 0 .. MaxDev.
MaxDev == 1
\* MTD_NAME_MAX is set in libmtd.h, which is not among the sources; the
\* scanner uses it only in the comparison len > MTD_NAME_MAX, and the model
\* takes a small value so that names at and above the limit are generated.
MTD_NAME_MAX == 1

(***************************************************************************)
(* Program constants.                                                      *)
(***************************************************************************)
MTD_DEV_MAJOR == 90
PROC_MTD_MAX_LEN == 4096
INT_MAX == 2147483647

NL == "\n"
QUOTE == "\""
\* The string terminator, and the value of every byte beyond the modelled
\* memory.
NUL == "NUL"

PROC_MTD_FIRST ==
  << "d", "e", "v", ":", " ", " ", " ", " ", "s", "i", "z", "e", " ", " ",
     " ", "e", "r", "a", "s", "e", "s", "i", "z", "e", " ", " ", "n", "a",
     "m", "e", NL >>

PROC_MTD_FIRST_LEN == Len(PROC_MTD_FIRST)

(***************************************************************************)
(* Integers of C.  An unsigned 32-bit value, and the long long that holds  *)
(* one, is a record [hi, lo] standing for hi * 2^31 + lo, with hi in 0..1  *)
(* and lo in 0..INT_MAX; an int is an integer of INT_MIN..INT_MAX.         *)
(***************************************************************************)
INT_MIN == (0 - INT_MAX) - 1

U32(h, l) == [hi |-> h, lo |-> l]

\* Storing an unsigned 32-bit value into an int: values from 2^31 on wrap
\* to the negative ones.
IntOfU32(u) == IF u.hi = 0 THEN u.lo ELSE (u.lo - INT_MAX) - 1

\* F(v), with v evaluated once whatever the use F makes of it: a local
\* variable of the code.
Let1(v, F(_)) == CHOOSE r \in {F(x) : x \in {v}} : TRUE

Max2(a, b) == IF a >= b THEN a ELSE b
Min2(a, b) == IF a <= b THEN a ELSE b

(***************************************************************************)
(* The C library calls the scanner uses.  mem is the memory starting at    *)
(* the buffer's first byte: the bytes read, then whatever follows them.    *)
(***************************************************************************)
At(mem, o) == IF o >= 0 /\ o < Len(mem) THEN mem[o + 1] ELSE NUL

IsSpace(c) == c \in {" ", NL}

DecDigits == <<"0", "1", "2", "3", "4", "5", "6", "7", "8", "9">>
HexDigits == DecDigits \o <<"a", "b", "c", "d", "e", "f">>

DigitsOf(base) == IF base = 10 THEN DecDigits ELSE HexDigits

IsDigit(c, base) == \E i \in 1..base : DigitsOf(base)[i] = c

DigitVal(c, base) == (CHOOSE i \in 1..base : DigitsOf(base)[i] = c) - 1

\* The first offset at or after o whose byte is no white space.
SkipSpace(mem, o) ==
  CHOOSE j \in o..Max2(o, Len(mem)) :
    /\ ~IsSpace(At(mem, j))
    /\ \A k \in o..(j - 1) : IsSpace(At(mem, k))

\* The first offset at or after o whose byte is no digit of the base.
DigitsEnd(mem, o, base) ==
  CHOOSE j \in o..Max2(o, Len(mem)) :
    /\ ~IsDigit(At(mem, j), base)
    /\ \A k \in o..(j - 1) : IsDigit(At(mem, k), base)

RECURSIVE DigitsValue(_, _, _, _)
DigitsValue(mem, o, e, base) ==
  IF e <= o THEN 0
  ELSE DigitsValue(mem, o, e - 1, base) * base + DigitVal(At(mem, e - 1), base)

\* One numeric conversion of scanf (%d, %llx, %x) at offset o: leading
\* white space is skipped, a sign is accepted, at least one digit is needed.
\* end is the offset of the first byte not consumed, which is also the last
\* byte examined; eof tells that the input ended before any digit.
\* ScanDigits converts the digits from offset d to offset e.
ScanDigits(mem, neg, d, e, base) ==
  [ok  |-> e > d,
   eof |-> e = d /\ At(mem, d) = NUL,
   val |-> IF neg THEN 0 - DigitsValue(mem, d, e, base)
           ELSE DigitsValue(mem, d, e, base),
   end |-> e]

\* ScanSigned takes the sign at offset s, if there is one.
ScanSigned(mem, s, d, base) ==
  Let1(DigitsEnd(mem, d, base),
       LAMBDA e : ScanDigits(mem, At(mem, s) = "-", d, e, base))

ScanAt(mem, s, base) ==
  Let1(IF At(mem, s) \in {"-", "+"} THEN s + 1 ELSE s,
       LAMBDA d : ScanSigned(mem, s, d, base))

ScanNumber(mem, o, base) ==
  Let1(SkipSpace(mem, o), LAMBDA s : ScanAt(mem, s, base))

\* sscanf(mem + o, "mtd%d: %llx %x", &mtd_num, &size, &eb_size).
\* ret is the return value (the number of conversions stored, EOF = -1 when
\* the input ends before the first one); a conversion that succeeded has
\* stored its value even when a later one fails.  last is the highest offset
\* examined.  The numbers of the generated listings have one or two digits,
\* so no conversion overflows its type.
Scanned(r, n, sz, eb, l) ==
  [ret |-> r, mtd_num |-> n, size |-> sz, eb_size |-> eb, last |-> l]

\* " %x", after the conversions n and sz
SscanfEb(mem, n, sz, eb) ==
  IF ~eb.ok THEN Scanned(2, n.val, sz.val, 0, eb.end)
  ELSE Scanned(3, n.val, sz.val, eb.val, eb.end)

\* " %llx", after the conversion n and the colon
SscanfSize(mem, n, sz) ==
  IF ~sz.ok THEN Scanned(1, n.val, 0, 0, sz.end)
  ELSE Let1(ScanNumber(mem, sz.end, 16), LAMBDA eb : SscanfEb(mem, n, sz, eb))

\* "%d:", after the literal mtd
SscanfNum(mem, n) ==
  IF ~n.ok THEN Scanned(IF n.eof THEN -1 ELSE 0, 0, 0, 0, n.end)
  ELSE IF At(mem, n.end) # ":" THEN Scanned(1, n.val, 0, 0, n.end)
  ELSE Let1(ScanNumber(mem, n.end + 1, 16), LAMBDA sz : SscanfSize(mem, n, sz))

\* the literal at offset k does not match
SscanfStop(mem, k) == Scanned(IF At(mem, k) = NUL THEN -1 ELSE 0, 0, 0, 0, k)

Sscanf(mem, o) ==
  IF At(mem, o) # "m" THEN SscanfStop(mem, o)
  ELSE IF At(mem, o + 1) # "t" THEN SscanfStop(mem, o + 1)
  ELSE IF At(mem, o + 2) # "d" THEN SscanfStop(mem, o + 2)
  ELSE Let1(ScanNumber(mem, o + 3, 10), LAMBDA n : SscanfNum(mem, n))

\* memchr(mem + o, c, n): the offset of the first byte c among the n bytes
\* from offset o, or -1 (a null pointer).
Memchr(mem, o, c, n) ==
  IF \E j \in o..(o + n - 1) : At(mem, j) = c
  THEN CHOOSE j \in o..(o + n - 1) :
         At(mem, j) = c /\ \A k \in o..(j - 1) : At(mem, k) # c
  ELSE -1

(***************************************************************************)
(* The scanner's record and cursor, struct proc_parse_info.  buf holds the *)
(* bytes read (data_size of them); next is the cursor as a buffer offset.  *)
(* The structure is an automatic variable that nothing initialises: set    *)
(* names the fields that have been stored so far.                          *)
(***************************************************************************)
PiInit ==
  [mtd_num |-> 0, size |-> 0, eb_size |-> 0, name |-> <<>>,
   buf |-> <<>>, data_size |-> 0, next |-> 0, set |-> {}]

\* The fields sscanf stores when it returns ret.
StoredBy(ret) ==
  IF ret >= 3 THEN {"mtd_num", "size", "eb_size"}
  ELSE IF ret = 2 THEN {"mtd_num", "size"}
  ELSE IF ret = 1 THEN {"mtd_num"}
  ELSE {}

AfterSscanf(pi, sc) ==
  [pi EXCEPT !.mtd_num = IF sc.ret >= 1 THEN sc.mtd_num ELSE @,
             !.size    = IF sc.ret >= 2 THEN sc.size ELSE @,
             !.eb_size = IF sc.ret >= 3 THEN sc.eb_size ELSE @,
             !.set     = @ \cup StoredBy(sc.ret)]

\* The test of the name's length in proc_parse_next.
NameTooLong(len) == len > MTD_NAME_MAX

\* proc_parse_next(pi), with g the bytes that follow the data read in
\* memory.  ret is the return value (1 a record, 0 end of data, -1 from
\* errmsg), err names the failure, freed tells that the buffer was freed and
\* last is the highest buffer offset examined (-1 when none was).
Out(r, e, p, f, l) ==
  [ret |-> r, err |-> e, pi |-> p, freed |-> f, last |-> l]

\* ParseNewline, without the cursor's advance.
ParseNewline_NoAdvance(pi, mem, last, p1) ==
  IF At(mem, p1 + 1) # NL THEN Out(-1, "newline", pi, FALSE, last)
  ELSE Out(1, "none", pi, FALSE, last)

\* the test of the byte after the closing quote at offset p1, and the
\* cursor's advance
ParseNewline(pi, mem, last, p1) ==
  IF At(mem, p1 + 1) # NL THEN Out(-1, "newline", pi, FALSE, last)
  ELSE Out(1, "none", [pi EXCEPT !.next = p1 + 2], FALSE, last)

\* the closing quote p1 searched from offset p, the length and the copy of
\* the name
ParseClosing(pi, mem, last, p, p1) ==
  IF p1 = -1 THEN Out(-1, "close", pi, FALSE, Max2(last, pi.data_size - 1))
  ELSE IF NameTooLong(p1 - p) THEN Out(-1, "toolong", pi, FALSE, Max2(last, p1))
  ELSE Let1([pi EXCEPT !.name = SubSeq(mem, p + 1, p1),
                            !.set  = @ \cup {"name"}],
            LAMBDA pi2 : ParseNewline(pi2, mem, Max2(last, p1 + 1), p1))

\* the opening quote q searched from the cursor
ParseOpening(pi, mem, last, q) ==
  IF q = -1 THEN Out(-1, "open", pi, FALSE, Max2(last, pi.data_size - 1))
  ELSE IF q + 1 >= pi.data_size THEN Out(-1, "open", pi, FALSE, Max2(last, q))
  ELSE Let1(Memchr(mem, q + 1, QUOTE, pi.data_size - (q + 1)),
            LAMBDA p1 : ParseClosing(pi, mem, last, q + 1, p1))

\* the test of sscanf's result sc
ParseScanned(pi, mem, sc) ==
  IF sc.ret # 3 THEN Out(-1, "pattern", AfterSscanf(pi, sc), FALSE, sc.last)
  ELSE Let1(AfterSscanf(pi, sc),
            LAMBDA pi1 :
              Let1(Memchr(mem, pi.next, QUOTE, pi.data_size - pi.next),
                   LAMBDA q : ParseOpening(pi1, mem, sc.last, q)))

ProcParseNext(pi, g) ==
  IF pi.next >= pi.data_size THEN Out(0, "none", pi, TRUE, -1)
  ELSE Let1(pi.buf \o g,
            LAMBDA mem :
              Let1(Sscanf(mem, pi.next), LAMBDA sc : ParseScanned(pi, mem, sc)))

(***************************************************************************)
(* The listings the model reads.  A listing is described by its header,    *)
(* its lines and the number of bytes missing at its end; Render gives its  *)
(* bytes.                                                                  *)
(***************************************************************************)
RECURSIVE Rep(_, _)
Rep(c, n) == IF n <= 0 THEN <<>> ELSE <<c>> \o Rep(c, n - 1)

Numeral(n) == <<DecDigits[n + 1]>>

\* One line of the listing: mtd<N>: <hex> <hex> "<name>"\n when kind is
\* "ok", and one departure from that format for each other kind.
RenderLine(l) ==
  LET num  == IF l.kind = "neg" THEN <<"-">> \o Numeral(l.n) ELSE Numeral(l.n)
      head == IF l.kind = "nopatt" THEN <<"m", "t", "z">> ELSE <<"m", "t", "d">>
      size == IF l.kind = "nohex" THEN <<"z", "z">> ELSE <<"1", "0">>
      oq   == IF l.kind = "noopen" THEN <<>> ELSE <<QUOTE>>
      cq   == IF l.kind \in {"noopen", "noclose"} THEN <<>> ELSE <<QUOTE>>
      tail == IF l.kind = "nonl" THEN <<"z", NL>> ELSE <<NL>>
  IN  head \o num \o <<":", " ">> \o size \o <<" ", "8", " ">>
        \o oq \o l.name \o cq \o tail

RenderHeader(h) ==
  IF h = "ok" THEN PROC_MTD_FIRST
  ELSE IF h = "short" THEN SubSeq(PROC_MTD_FIRST, 1, PROC_MTD_FIRST_LEN - 1)
  ELSE <<"D">> \o SubSeq(PROC_MTD_FIRST, 2, PROC_MTD_FIRST_LEN)

RECURSIVE RenderLines(_)
RenderLines(ls) ==
  IF ls = <<>> THEN <<>> ELSE RenderLine(Head(ls)) \o RenderLines(Tail(ls))

Render(d) ==
  LET all == RenderHeader(d.hdr) \o RenderLines(d.lines)
  IN  SubSeq(all, 1, Max2(0, Len(all) - d.cut))

\* A listing in the format of the kernel: the exact header, then lines of
\* the format with names of at most MTD_NAME_MAX bytes, nothing missing.
WellFormed(d) ==
  /\ d.hdr = "ok"
  /\ d.cut = 0
  /\ \A i \in 1..Len(d.lines) :
       d.lines[i].kind = "ok" /\ Len(d.lines[i].name) <= MTD_NAME_MAX


\* Names of the generated lines: the empty name, a name of one byte and a
\* name of exactly MTD_NAME_MAX bytes.
NameB == <<"b">>
NameMax == Rep("a", MTD_NAME_MAX)
NameOver == Rep("a", MTD_NAME_MAX + 1)

Line(k, n, nm) == [kind |-> k, n |-> n, name |-> nm]

OkLines == {Line("ok", n, nm) : n \in 0..MaxDev, nm \in {<<>>, NameB, NameMax}}

BadKinds == {"neg", "nopatt", "nohex", "noopen", "noclose", "nonl"}

BadLines ==
  {Line(k, MaxDev, NameB) : k \in BadKinds} \cup {Line("ok", MaxDev, NameOver)}

SeqsUpTo(S, n) == UNION {[1..k -> S] : k \in 0..n}

Desc(h, ls, c) == [hdr |-> h, lines |-> ls, cut |-> c]

\* The status of /proc/mtd: readable, absent (open fails) or failing on read.
File(st, d) == [st |-> st, desc |-> d, data |-> Render(d)]

Bodies == SeqsUpTo(OkLines \cup BadLines, MaxLines)

\* Numbers of bytes missing at the end of a listing whose last line is
\* mtd<N>: 10 8 "b"\n: the newline, the closing quote too, the name too, and
\* all that follows the last digit.
Cuts == {1, 2, 3, 5}

CutBodies ==
  {ls \in Bodies : ls # <<>> /\ ls[Len(ls)] = Line("ok", MaxDev, NameB)}

WellFormedListings == {File("ok", Desc("ok", ls, 0)) : ls \in SeqsUpTo(OkLines, MaxLines)}

Listings ==
  {File("ok", Desc("ok", ls, 0)) : ls \in Bodies}
  \cup {File("ok", Desc("ok", ls, c)) : ls \in CutBodies, c \in Cuts}
  \cup {File("ok", Desc(h, <<Line("ok", 0, NameB)>>, c)) :
          h \in {"short", "bad"}, c \in {0, 40}}
  \cup {File(st, Desc("ok", <<>>, 0)) : st \in {"noent", "eio"}}

\* Listings for the scanner alone: lines of the format with one name, and
\* every departure from the format, whole or with bytes missing at the end.
ScanLines == {Line("ok", n, NameB) : n \in {0, MaxDev}} \cup BadLines

ScanBodies == SeqsUpTo(ScanLines, MaxLines)

ScanListings ==
  {File("ok", Desc("ok", ls, 0)) : ls \in ScanBodies}
  \cup {File("ok", Desc("ok", ls, c)) : ls \in ScanBodies \cap CutBodies, c \in Cuts}

ListingsSmall ==
  {File("ok", Desc("ok", ls, 0)) :
     ls \in { <<>>,
              <<Line("ok", 0, NameMax)>>,
              <<Line("ok", 0, NameMax), Line("ok", 1, NameB)>>,
              <<Line("ok", 0, NameB), Line("ok", 1, NameB)>>,
              <<Line("ok", 0, NameMax), Line("noclose", 1, NameB)>> }}
  \cup {File("noent", Desc("ok", <<>>, 0))}

(***************************************************************************)
(* The device node.  dev describes what the system answers for the node:   *)
(* the results of open and fstat, the file type, the device numbers and    *)
(* the answers to the three ioctl requests.  The node of path /dev/mtd<k>  *)
(* has minor number 2 * k + skew.                                          *)
(***************************************************************************)
MtdTypes ==
  {"MTD_ABSENT", "MTD_RAM", "MTD_ROM", "MTD_NORFLASH", "MTD_NANDFLASH",
   "MTD_MLCNANDFLASH", "MTD_DATAFLASH", "MTD_UBIVOLUME"}

Ui(t, w, sz, es, ws, oob) ==
  [type |-> t, writeable |-> w, size |-> sz, erasesize |-> es,
   writesize |-> ws, oobsize |-> oob]

Dev(o, st, chr, maj, skew, geo, ui, bb, ecc, avail) ==
  [open |-> o, fstat |-> st, chr |-> chr, major |-> maj, skew |-> skew,
   geo |-> geo, ui |-> ui, bb |-> bb, ecc |-> ecc, oobavail |-> avail]

U32Values == {U32(0, 0), U32(0, 1), U32(0, 2), U32(0, 3), U32(1, 0), U32(1, INT_MAX)}

GoodUi == Ui("MTD_NANDFLASH", TRUE, U32(0, 2), U32(0, 1), U32(0, 1), U32(0, 0))

GoodDev == Dev("ok", "ok", TRUE, MTD_DEV_MAJOR, 0, "ok", GoodUi, "ok", "ok", 5)

NoDev == Dev("ENOENT", "ok", TRUE, MTD_DEV_MAJOR, 0, "ok", GoodUi, "ok", "ok", 0)

DevsSmall == {GoodDev}

Devs ==
  \* the node cannot be opened, or is not an MTD character device
  {[GoodDev EXCEPT !.open = e] : e \in {"ENOENT", "EACCES"}}
  \cup {[GoodDev EXCEPT !.fstat = "EIO"], [GoodDev EXCEPT !.chr = FALSE],
        [GoodDev EXCEPT !.major = MTD_DEV_MAJOR + 1],
        [GoodDev EXCEPT !.geo = "EIO"]}
  \* every geometry
  \cup {[GoodDev EXCEPT !.ui = Ui("MTD_NANDFLASH", FALSE, sz, es, ws, U32(0, 0))] :
          sz \in U32Values, es \in U32Values, ws \in U32Values}
  \* every type
  \cup {[GoodDev EXCEPT !.ui = Ui(t, w, U32(0, 2), U32(0, 1), U32(0, 1), U32(0, 3))] :
          t \in MtdTypes \cup {"MTD_OTHER"}, w \in BOOLEAN}
  \* every answer to the optional requests, for both nodes of a device and
  \* for a node whose minor number is that of another device
  \cup {[GoodDev EXCEPT !.bb = b, !.ecc = e[1], !.oobavail = e[2], !.skew = k] :
          b \in {"ok", "EOPNOTSUPP", "EIO"},
          e \in {<<"ok", 5>>, <<"ok", 0>>, <<"ok", -3>>,
                 <<"EOPNOTSUPP", 0>>, <<"EIO", 0>>},
          k \in {0, 1, 2}}

(***************************************************************************)
(* The calls.                                                              *)
(***************************************************************************)
\* struct mtd_info
Info(c, lo, hi) == [mtd_dev_cnt |-> c, lowest_mtd_num |-> lo, highest_mtd_num |-> hi]

\* The summaries a caller passes to legacy_mtd_get_info: zero-filled, or
\* used before.
InfoEntries == {Info(0, 0, 0), Info(1, 0, MaxDev + 1)}

\* A call: the function, its device number or name, and the summary it is
\* given.
Call(op, num, nm, i) == [op |-> op, num |-> num, name |-> nm, info |-> i]

ScanCalls ==
  {Call("legacy_dev_present", n, <<>>, Info(0, 0, 0)) : n \in 0..(MaxDev + 1)}
  \cup {Call("legacy_mtd_get_info", 0, <<>>, i) : i \in InfoEntries}

DevCalls ==
  {Call("legacy_get_dev_info1", n, <<>>, Info(0, 0, 0)) : n \in 0..MaxDev}
  \cup {Call("legacy_get_dev_info2", 0, nm, Info(0, 0, 0)) : nm \in {NameB, NameMax}}
  \cup {Call("legacy_get_mtd_oobavail1", 0, <<>>, Info(0, 0, 0))}

\* struct mtd_dev_info, zero-filled.
MtdZero ==
  [mtd_num |-> 0, major |-> 0, minor |-> 0, type |-> "MTD_ABSENT",
   type_str |-> "", name |-> <<>>, size |-> U32(0, 0), eb_cnt |-> 0,
   eb_size |-> 0, min_io_size |-> 0, subpage_size |-> 0, oob_size |-> 0,
   oobavail |-> 0, writable |-> 0, bb_allowed |-> 0]

UiZero == Ui("MTD_ABSENT", FALSE, U32(0, 0), U32(0, 0), U32(0, 0), U32(0, 0))


(***************************************************************************)
(* The state.                                                              *)
(*   procmtd  /proc/mtd                      dev   the device node         *)
(*   call     the library call made          fn    the function running    *)
(*   pc       its position                   node  the k of its /dev/mtd<k>*)
(*   pi       struct proc_parse_info         nret  proc_parse_next's value *)
(*   info     struct mtd_info                mtd   struct mtd_dev_info     *)
(*   ui       struct mtd_info_user           found mtd_num of _info2       *)
(*   pret     legacy_get_mtd_oobavail's value                              *)
(*   heap     the scan buffer: its state, and the calls of xmalloc and     *)
(*            free made for it                                             *)
(*   fds      the descriptors of the node held by legacy_get_dev_info (g)  *)
(*            and legacy_get_mtd_oobavail (p), and the calls of close      *)
(*   errno    errno                          ret   the call's return value *)
(*   hist     what the scan has done so far: a step failed, a step was     *)
(*            made after a failed one, the loop body ran on a failed step, *)
(*            the last step's failure and the name and cursor before it,   *)
(*            the number of records returned, the highest buffer offset    *)
(*            examined, a read of a field that was never stored            *)
(***************************************************************************)
VARIABLES procmtd, dev, call, fn, pc, node, pi, nret, info, mtd, ui, found,
          pret, heap, fds, errno, ret, hist

vars == <<procmtd, dev, call, fn, pc, node, pi, nret, info, mtd, ui, found,
          pret, heap, fds, errno, ret, hist>>

world == <<procmtd, dev, call>>

HistInit ==
  [failed |-> FALSE, afterFail |-> FALSE, staleUse |-> FALSE, err |-> "none",
   name0 |-> <<>>, next0 |-> 0, records |-> 0, maxoff |-> -1, uninit |-> FALSE]

\* The function a call enters, and its first position.
EntryFn(op) ==
  IF op = "legacy_get_dev_info1" THEN "legacy_get_dev_info"
  ELSE IF op = "legacy_get_mtd_oobavail1" THEN "legacy_get_mtd_oobavail"
  ELSE op

EntryPc(op) ==
  IF op = "legacy_get_dev_info1" THEN "open"
  ELSE IF op = "legacy_get_mtd_oobavail1" THEN "probe_open"
  ELSE "start"

InitWith(files, devs) ==
  /\ procmtd \in files
  /\ call \in ScanCalls \cup DevCalls
  /\ dev \in (IF call \in DevCalls THEN devs ELSE {NoDev})
  /\ info = call.info
  /\ fn = EntryFn(call.op)
  /\ pc = EntryPc(call.op)
  /\ node = call.num
  /\ pi = PiInit
  /\ nret = 0
  /\ mtd = MtdZero
  /\ ui = UiZero
  /\ found = -1
  /\ pret = 0
  /\ heap = [buf |-> "none", allocs |-> 0, frees |-> 0]
  /\ fds = [g |-> "none", p |-> "none", gcloses |-> 0, pcloses |-> 0]
  /\ errno = "0"
  /\ ret = 0
  /\ hist = HistInit

Init == InitWith(Listings, DevsSmall)

InitDev == InitWith(ListingsSmall, Devs)

InitWellFormed == InitWith(WellFormedListings, DevsSmall)

InitFew == InitWith(ListingsSmall, DevsSmall)

InitScan == InitWith(ScanListings, DevsSmall)

\* return r from the call
Return(r) == pc' = "done" /\ ret' = r

\* free(pi->buf)
Free(h) ==
  [h EXCEPT !.buf = "freed", !.frees = @ + 1]

\* close(fd) on the descriptor f ("g" or "p") of the node; a descriptor that
\* is not open when it is closed becomes "bad"
Closed(st) == IF st = "open" THEN "closed" ELSE "bad"

\* Close, with the call of close left out.
Close_Omitted(d, f) == d

Close(d, f) ==
  IF f = "g" THEN [d EXCEPT !.g = Closed(@), !.gcloses = @ + 1]
  ELSE [d EXCEPT !.p = Closed(@), !.pcloses = @ + 1]

(***************************************************************************)
(* proc_parse_start, with the test of its result that each caller makes    *)
(* (if (ret) return -1) and, in legacy_mtd_get_info, the assignment        *)
(* info->lowest_mtd_num = INT_MAX that follows the test.                   *)
(***************************************************************************)
\* read(fd, buf, PROC_MTD_MAX_LEN) on a readable file
ReadLen(data) == Min2(Len(data), PROC_MTD_MAX_LEN)

\* the test of the header, negated: true when the scan may start
HeaderOk(buf, n) ==
  /\ ~(n < PROC_MTD_FIRST_LEN)
  /\ SubSeq(buf, 1, PROC_MTD_FIRST_LEN) = PROC_MTD_FIRST

ProcParseStart ==
  /\ pc = "start"
  /\ hist' = HistInit
  /\ IF procmtd.st = "noent" THEN
       /\ errno' = "ENOENT"
       /\ Return(-1)
       /\ UNCHANGED <<pi, heap>>
     ELSE
       LET n   == IF procmtd.st = "eio" THEN -1 ELSE ReadLen(procmtd.data)
           buf == IF n = -1 THEN <<>> ELSE SubSeq(procmtd.data, 1, n)
           got == [heap EXCEPT !.buf = "live", !.allocs = @ + 1]
       IN
       IF n = -1 \/ ~HeaderOk(buf, n) THEN
         /\ heap' = Free(got)
         /\ errno' = IF n = -1 THEN "EIO" ELSE errno
         /\ Return(-1)
         /\ pi' = PiInit
       ELSE
         /\ heap' = got
         /\ pi' = [PiInit EXCEPT !.buf = buf, !.data_size = n,
                                 !.next = PROC_MTD_FIRST_LEN]
         /\ pc' = "next"
         /\ UNCHANGED <<errno, ret>>
  /\ info' = IF fn = "legacy_mtd_get_info" /\ pc' = "next"
              THEN [info EXCEPT !.lowest_mtd_num = INT_MAX] ELSE info
  /\ UNCHANGED <<world, fn, node, nret, mtd, ui, found, pret, fds>>

(***************************************************************************)
(* One call of proc_parse_next from the loop while (proc_parse_next(&pi)). *)
(* The bytes after the data read are whatever the allocation held.         *)
(***************************************************************************)
Garbage == {<<>>, <<NL>>, <<"1">>, <<QUOTE>>}

ProcParseNextCall ==
  /\ pc = "next"
  /\ \E g \in Garbage :
       \E r \in {ProcParseNext(pi, g)} :
       /\ pi' = r.pi
       /\ nret' = r.ret
       /\ heap' = IF r.freed THEN Free(heap) ELSE heap
       /\ hist' = [hist EXCEPT !.failed = @ \/ r.ret = -1,
                               !.afterFail = @ \/ hist.failed,
                               !.err = r.err,
                               !.name0 = pi.name,
                               !.next0 = pi.next,
                               !.records = IF r.ret = 1 THEN @ + 1 ELSE @,
                               !.maxoff = Max2(@, r.last)]
  /\ pc' = "body"
  /\ UNCHANGED <<world, fn, node, info, mtd, ui, found, pret, fds, errno, ret>>

\* Values an int that was never stored may hold.
UninitInts == {0, MaxDev + 1}

\* Values the name that was never stored may hold.
UninitNames == {<<>>, <<"z">>}

\* pi.mtd_num as the caller reads it
ReadNum(v) == IF "mtd_num" \in pi.set THEN pi.mtd_num ELSE v

\* pi.name as the caller reads it
ReadName(v) == IF "name" \in pi.set THEN pi.name ELSE v

\* the record of a loop body's run
Ran(h, fields) ==
  [h EXCEPT !.staleUse = @ \/ nret = -1,
            !.uninit = @ \/ ~(fields \subseteq pi.set)]

(***************************************************************************)
(* legacy_dev_present: the test of the loop and its body.                  *)
(***************************************************************************)
\* DevPresentMatch, with >= for ==.
DevPresentMatch_AtLeast(num, mtd_num) == num >= mtd_num

\* pi.mtd_num == mtd_num
DevPresentMatch(num, mtd_num) == num = mtd_num

DevPresentBody ==
  /\ pc = "body" /\ fn = "legacy_dev_present"
  /\ IF nret = 0 THEN Return(0) /\ UNCHANGED hist
     ELSE \E v \in UninitInts :
            /\ hist' = Ran(hist, {"mtd_num"})
            /\ IF DevPresentMatch(ReadNum(v), call.num) THEN Return(1)
               ELSE pc' = "next" /\ UNCHANGED ret
  /\ UNCHANGED <<world, fn, node, pi, nret, info, mtd, ui, found, pret, heap,
                 fds, errno>>

(***************************************************************************)
(* legacy_mtd_get_info: the test of the loop and its body.                 *)
(***************************************************************************)
\* The largest mtd_dev_cnt the model follows.
MaxCount == MaxLines + 3

\* CountDevice, with the update of lowest_mtd_num left out.
CountDevice_NoLowest(i, num) ==
  [mtd_dev_cnt |-> i.mtd_dev_cnt + 1,
   highest_mtd_num |-> IF num > i.highest_mtd_num THEN num
                       ELSE i.highest_mtd_num,
   lowest_mtd_num |-> i.lowest_mtd_num]

\* the body of the loop: one record, with device number num, is counted
CountDevice(i, num) ==
  [mtd_dev_cnt |-> i.mtd_dev_cnt + 1,
   highest_mtd_num |-> IF num > i.highest_mtd_num THEN num
                       ELSE i.highest_mtd_num,
   lowest_mtd_num |-> IF num < i.lowest_mtd_num THEN num
                      ELSE i.lowest_mtd_num]

GetInfoBody ==
  /\ pc = "body" /\ fn = "legacy_mtd_get_info"
  /\ IF nret = 0 THEN Return(0) /\ UNCHANGED <<info, hist>>
     ELSE /\ info.mtd_dev_cnt < MaxCount
          /\ \E v \in UninitInts :
               /\ info' = CountDevice(info, ReadNum(v))
               /\ hist' = Ran(hist, {"mtd_num"})
          /\ pc' = "next"
          /\ UNCHANGED ret
  /\ UNCHANGED <<world, fn, node, pi, nret, mtd, ui, found, pret, heap, fds,
                 errno>>

(***************************************************************************)
(* legacy_get_dev_info2: the test of the loop and its body, and after the  *)
(* loop the test of mtd_num and the call of legacy_get_dev_info1, which    *)
(* formats the node's path from mtd_num and calls legacy_get_dev_info.     *)
(***************************************************************************)
\* !strcmp(name, pi.name)
SameName(a, b) == a = b

\* Collision, with > for >=.
Collision_Positive(num) == num > 0

\* the test for a name met before
Collision(num) == num >= 0

DevInfo2Body ==
  /\ pc = "body" /\ fn = "legacy_get_dev_info2"
  /\ IF nret = 0 THEN
       /\ IF found < 0 THEN
            errno' = "ENODEV" /\ Return(-1) /\ UNCHANGED <<fn, node>>
          ELSE
            /\ fn' = "legacy_get_dev_info"
            /\ node' = found
            /\ pc' = "open"
            /\ UNCHANGED <<errno, ret>>
       /\ UNCHANGED <<found, hist>>
     ELSE
       \E v \in UninitInts, w \in UninitNames :
         IF SameName(call.name, ReadName(w)) THEN
           IF Collision(found) THEN
             /\ errno' = "ENODEV"
             /\ Return(-1)
             /\ hist' = Ran(hist, {"name"})
             /\ UNCHANGED <<fn, node, found>>
           ELSE
             /\ found' = ReadNum(v)
             /\ hist' = Ran(hist, {"name", "mtd_num"})
             /\ pc' = "next"
             /\ UNCHANGED <<fn, node, errno, ret>>
         ELSE
           /\ hist' = Ran(hist, {"name"})
           /\ pc' = "next"
           /\ UNCHANGED <<fn, node, found, errno, ret>>
  /\ UNCHANGED <<world, pi, nret, info, mtd, ui, pret, heap, fds>>

(***************************************************************************)
(* legacy_get_dev_info: the listing scan at its end.                       *)
(***************************************************************************)
\* pi.mtd_num == mtd->mtd_num
DevInfoMatch(num, mtd_num) == num = mtd_num

DevInfoBody ==
  /\ pc = "body" /\ fn = "legacy_get_dev_info"
  /\ IF nret = 0 THEN
       /\ errno' = "ENOENT"
       /\ Return(-1)
       /\ UNCHANGED <<mtd, hist>>
     ELSE
       \E v \in UninitInts, w \in UninitNames :
         IF DevInfoMatch(ReadNum(v), mtd.mtd_num) THEN
           /\ mtd' = [mtd EXCEPT !.name = ReadName(w)]
           /\ hist' = Ran(hist, {"mtd_num", "name"})
           /\ Return(0)
           /\ UNCHANGED errno
         ELSE
           /\ hist' = Ran(hist, {"mtd_num"})
           /\ pc' = "next"
           /\ UNCHANGED <<mtd, errno, ret>>
  /\ UNCHANGED <<world, fn, node, pi, nret, info, ui, found, pret, heap, fds>>

(***************************************************************************)
(* legacy_get_dev_info: the node.                                          *)
(***************************************************************************)
\* open(node, O_RDONLY)
DevInfoOpen ==
  /\ pc = "open" /\ fn = "legacy_get_dev_info"
  /\ IF dev.open # "ok" THEN
       errno' = dev.open /\ Return(-1) /\ UNCHANGED fds
     ELSE
       fds' = [fds EXCEPT !.g = "open"] /\ pc' = "stat" /\ UNCHANGED <<errno, ret>>
  /\ UNCHANGED <<world, fn, node, pi, nret, info, mtd, ui, found, pret, heap,
                 hist>>

\* minor(st.st_rdev) of the node /dev/mtd<k>
MinorOf(k) == 2 * k + dev.skew

\* the device number of a node, from its minor number
MtdNumOf(minor) == minor \div 2

\* fstat, S_ISCHR, memset, major and minor, the test of the major number,
\* mtd_num
DevInfoStat ==
  /\ pc = "stat" /\ fn = "legacy_get_dev_info"
  /\ IF dev.fstat # "ok" THEN
       /\ fds' = Close(fds, "g")
       /\ errno' = dev.fstat
       /\ Return(-1)
       /\ UNCHANGED mtd
     ELSE IF ~dev.chr THEN
       /\ fds' = Close(fds, "g")
       /\ errno' = "EINVAL"
       /\ Return(-1)
       /\ UNCHANGED mtd
     ELSE
       LET m == [MtdZero EXCEPT !.major = dev.major, !.minor = MinorOf(node)]
       IN
       IF m.major # MTD_DEV_MAJOR THEN
         /\ fds' = Close(fds, "g")
         /\ errno' = "EINVAL"
         /\ Return(-1)
         /\ mtd' = m
       ELSE
         /\ mtd' = [m EXCEPT !.mtd_num = MtdNumOf(m.minor)]
         /\ pc' = "geometry"
         /\ UNCHANGED <<fds, errno, ret>>
  /\ UNCHANGED <<world, fn, node, pi, nret, info, ui, found, pret, heap, hist>>

\* ioctl(fd, MEMGETINFO, &ui)
DevInfoGeometry ==
  /\ pc = "geometry" /\ fn = "legacy_get_dev_info"
  /\ IF dev.geo # "ok" THEN
       /\ fds' = Close(fds, "g")
       /\ errno' = dev.geo
       /\ Return(-1)
       /\ UNCHANGED ui
     ELSE
       /\ ui' = dev.ui
       /\ pc' = "badblock"
       /\ UNCHANGED <<fds, errno, ret>>
  /\ UNCHANGED <<world, fn, node, pi, nret, info, mtd, found, pret, heap, hist>>

\* ioctl(fd, MEMGETBADBLOCK, &offs)
DevInfoBadBlock ==
  /\ pc = "badblock" /\ fn = "legacy_get_dev_info"
  /\ IF dev.bb = "ok" THEN
       /\ mtd' = [mtd EXCEPT !.bb_allowed = 1]
       /\ pc' = "validate"
       /\ UNCHANGED <<fds, errno, ret>>
     ELSE IF dev.bb # "EOPNOTSUPP" THEN
       /\ fds' = Close(fds, "g")
       /\ errno' = dev.bb
       /\ Return(-1)
       /\ UNCHANGED mtd
     ELSE
       /\ errno' = "0"
       /\ mtd' = [mtd EXCEPT !.bb_allowed = 0]
       /\ pc' = "validate"
       /\ UNCHANGED <<fds, ret>>
  /\ UNCHANGED <<world, fn, node, pi, nret, info, ui, found, pret, heap, hist>>

\* mtd->size <= 0, for the long long that holds an unsigned 32-bit value
LLNotPositive(sz) == sz.hi = 0 /\ sz.lo <= 0

\* mtd->size < e, for an int e
LLLessThanInt(sz, e) == sz.hi = 0 /\ sz.lo < e

\* InsaneMinIo, with < for <=.
InsaneMinIo_Negative(m) == m.min_io_size < 0

\* the three tests of the geometry, in the order of the code
InsaneMinIo(m) == m.min_io_size <= 0

\* InsaneEb, without the comparison with min_io_size.
InsaneEb_SignOnly(m) == m.eb_size <= 0

InsaneEb(m) == m.eb_size <= 0 \/ m.eb_size < m.min_io_size
InsaneSize(m) == LLNotPositive(m.size) \/ LLLessThanInt(m.size, m.eb_size)

\* mtd->size / mtd->eb_size for eb_size > 0, as a long long; 2^31 is
\* INT_MAX + 1
LLDiv(sz, e) ==
  IF sz.hi = 0 THEN U32(0, sz.lo \div e)
  ELSE IF e = 1 THEN sz
  ELSE U32(0, (INT_MAX \div e) + (sz.lo \div e)
                + (((INT_MAX % e) + (sz.lo % e) + 1) \div e))

\* the switch on mtd->type: the type's string, "" for MTD_ABSENT and for a
\* type that is no case of the switch
TypeStr(t) ==
  CASE t = "MTD_RAM" -> "ram"
    [] t = "MTD_ROM" -> "rom"
    [] t = "MTD_NORFLASH" -> "nor"
    [] t = "MTD_NANDFLASH" -> "nand"
    [] t = "MTD_MLCNANDFLASH" -> "mlc-nand"
    [] t = "MTD_DATAFLASH" -> "dataflash"
    [] t = "MTD_UBIVOLUME" -> "ubi"
    [] OTHER -> ""

\* the fields copied from ui, the tests of the geometry, eb_cnt, the type,
\* the flags, and close(fd)
DevInfoValidate ==
  /\ pc = "validate" /\ fn = "legacy_get_dev_info"
  /\ LET m1 == [mtd EXCEPT !.type = ui.type,
                           !.size = ui.size,
                           !.eb_size = IntOfU32(ui.erasesize),
                           !.min_io_size = IntOfU32(ui.writesize),
                           !.oob_size = IntOfU32(ui.oobsize)]
     IN
     IF InsaneMinIo(m1) \/ InsaneEb(m1) \/ InsaneSize(m1) THEN
       /\ mtd' = m1
       /\ fds' = Close(fds, "g")
       /\ Return(-1)
     ELSE
       LET m2 == [m1 EXCEPT !.eb_cnt = IntOfU32(LLDiv(m1.size, m1.eb_size))]
       IN
       IF TypeStr(m2.type) = "" THEN
         /\ mtd' = m2
         /\ fds' = Close(fds, "g")
         /\ Return(-1)
       ELSE
         /\ mtd' = [m2 EXCEPT !.type_str = TypeStr(m2.type),
                              !.writable = IF ui.writeable THEN 1 ELSE 0,
                              !.subpage_size = m2.min_io_size]
         /\ fds' = Close(fds, "g")
         /\ pc' = "probe_open"
         /\ UNCHANGED ret
  /\ UNCHANGED <<world, fn, node, pi, nret, info, ui, found, pret, heap, errno,
                 hist>>

(***************************************************************************)
(* legacy_get_mtd_oobavail, called by legacy_get_mtd_oobavail1 and by      *)
(* legacy_get_dev_info.  Its return value goes to the caller: the call's   *)
(* return value, or ret of legacy_get_dev_info.                            *)
(***************************************************************************)
ProbeReturn(r) ==
  /\ pret' = r
  /\ IF fn = "legacy_get_mtd_oobavail" THEN Return(r)
     ELSE pc' = "probed" /\ UNCHANGED ret

ProbeOpen ==
  /\ pc = "probe_open"
  /\ IF dev.open # "ok" THEN
       errno' = dev.open /\ ProbeReturn(-1) /\ UNCHANGED fds
     ELSE
       /\ fds' = [fds EXCEPT !.p = "open"]
       /\ pc' = "probe_stat"
       /\ UNCHANGED <<errno, ret, pret>>
  /\ UNCHANGED <<world, fn, node, pi, nret, info, mtd, ui, found, heap, hist>>

\* fstat and S_ISCHR
ProbeStat ==
  /\ pc = "probe_stat"
  /\ IF dev.fstat # "ok" THEN
       errno' = dev.fstat /\ fds' = Close(fds, "p") /\ ProbeReturn(-1)
     ELSE IF ~dev.chr THEN
       errno' = "EINVAL" /\ fds' = Close(fds, "p") /\ ProbeReturn(-1)
     ELSE
       pc' = "probe_query" /\ UNCHANGED <<fds, errno, ret, pret>>
  /\ UNCHANGED <<world, fn, node, pi, nret, info, mtd, ui, found, heap, hist>>

\* ioctl(fd, ECCGETLAYOUT, &usrlay), ret = usrlay.oobavail, close(fd)
ProbeQuery ==
  /\ pc = "probe_query"
  /\ fds' = Close(fds, "p")
  /\ IF dev.ecc # "ok" THEN errno' = dev.ecc /\ ProbeReturn(-1)
     ELSE ProbeReturn(dev.oobavail) /\ UNCHANGED errno
  /\ UNCHANGED <<world, fn, node, pi, nret, info, mtd, ui, found, heap, hist>>

\* OobAvail, without the test of the sign.
OobAvail_Unclamped(r) == r

\* mtd->oobavail = ret > 0 ? ret : 0
OobAvail(r) == IF r > 0 THEN r ELSE 0

DevInfoProbed ==
  /\ pc = "probed" /\ fn = "legacy_get_dev_info"
  /\ mtd' = [mtd EXCEPT !.oobavail = OobAvail(pret)]
  /\ pc' = "start"
  /\ UNCHANGED <<world, fn, node, pi, nret, info, ui, found, pret, heap, fds,
                 errno, ret, hist>>

Next ==
  \/ ProcParseStart
  \/ ProcParseNextCall
  \/ DevPresentBody
  \/ GetInfoBody
  \/ DevInfo2Body
  \/ DevInfoBody
  \/ DevInfoOpen
  \/ DevInfoStat
  \/ DevInfoGeometry
  \/ DevInfoBadBlock
  \/ DevInfoValidate
  \/ ProbeOpen
  \/ ProbeStat
  \/ ProbeQuery
  \/ DevInfoProbed

\* Every listing of the model, with a device that answers well or not at all.
Spec == Init /\ [][Next]_vars

\* Every device of the model, with a few listings.
SpecDev == InitDev /\ [][Next]_vars

\* The listings in the kernel's format.
SpecWellFormed == InitWellFormed /\ [][Next]_vars

\* The listings for the scanner.
SpecScan == InitScan /\ [][Next]_vars

\* A few listings.  The library is sequential: a call that can take a step
\* takes it.
FairSpec == InitFew /\ [][Next]_vars /\ WF_vars(Next)

(***************************************************************************)
(* Properties.                                                             *)
(***************************************************************************)
Done == pc = "done"

\* The device numbers of the lines of a listing.
LineNums(d) == {d.lines[i].n : i \in 1..Len(d.lines)}

\* A state of legacy_mtd_get_info's loop that the model does not follow
\* further.
Capped ==
  /\ fn = "legacy_mtd_get_info" /\ pc = "body" /\ nret # 0
  /\ info.mtd_dev_cnt >= MaxCount

\* C1: when proc_parse_next reports a parse failure, legacy_dev_present and
\* legacy_mtd_get_info end the scan at that step: the loop body does not run
\* on the failed step, proc_parse_next is not called again, and the call
\* returns -1.
C1_ParseFailureEndsScan ==
  (call.op \in {"legacy_dev_present", "legacy_mtd_get_info"} /\ hist.failed)
    => /\ ~hist.staleUse
       /\ ~hist.afterFail
       /\ (Done => ret = -1)

\* C2: every call terminates, whatever the listing holds: it reaches its
\* return (the runs of legacy_mtd_get_info that the model stops following
\* are left out).
C2_EveryCallReturns == <>(Done \/ Capped)

\* C3: when a call that started a scan returns, every buffer that
\* proc_parse_start allocated has been freed, once.
C3_BufferFreedOnReturn ==
  Done => (heap.buf # "live" /\ heap.frees = heap.allocs)

\* C4: legacy_get_dev_info and legacy_get_mtd_oobavail close the node they
\* opened exactly once before they return: a descriptor is open only between
\* the function's open and its close, it is closed at most once, and never
\* when it is not open.
C4_NodeClosedOnce ==
  /\ fds.g # "bad" /\ fds.p # "bad"
  /\ fds.gcloses = (IF fds.g = "closed" THEN 1 ELSE 0)
  /\ fds.pcloses = (IF fds.p = "closed" THEN 1 ELSE 0)
  /\ (fds.g = "open" => pc \in {"stat", "geometry", "badblock", "validate"})
  /\ (fds.p = "open" => pc \in {"probe_stat", "probe_query"})
  /\ (pc \in {"stat", "geometry", "badblock", "validate"} => fds.g = "open")
  /\ (pc \in {"probe_stat", "probe_query"} => fds.p = "open")

\* C4's case: legacy_get_dev_info has failed on the geometry after it opened
\* the node, and has closed it.
C4_Witness ==
  /\ Done /\ ret = -1 /\ fn = "legacy_get_dev_info"
  /\ mtd.min_io_size > 0 /\ mtd.eb_size < mtd.min_io_size
  /\ fds.g = "closed"

\* C5: proc_parse_next examines no byte of the buffer at an offset at or
\* beyond data_size.
C5_ReadsWithinData == hist.maxoff < Max2(pi.data_size, 0)

\* C6: on a well-formed listing, legacy_mtd_get_info given a zero-filled
\* summary returns 0 with mtd_dev_cnt the number of lines and, when there is
\* a line, lowest_mtd_num and highest_mtd_num the least and the greatest
\* device number of the lines.
C6_SummaryOfWellFormed ==
  (/\ Done /\ call.op = "legacy_mtd_get_info"
   /\ call.info = Info(0, 0, 0)
   /\ procmtd.st = "ok" /\ WellFormed(procmtd.desc))
    => /\ ret = 0
       /\ info.mtd_dev_cnt = Len(procmtd.desc.lines)
       /\ \A n \in LineNums(procmtd.desc) :
            info.lowest_mtd_num <= n /\ n <= info.highest_mtd_num
       /\ (procmtd.desc.lines # <<>> =>
             /\ info.lowest_mtd_num \in LineNums(procmtd.desc)
             /\ info.highest_mtd_num \in LineNums(procmtd.desc))

\* C6's case: the summary of a listing of several lines with different
\* device numbers, the lowest on the last line.
C6_Witness ==
  /\ Done /\ call.op = "legacy_mtd_get_info" /\ call.info = Info(0, 0, 0)
  /\ WellFormed(procmtd.desc)
  /\ Len(procmtd.desc.lines) = MaxLines
  /\ procmtd.desc.lines[1].n = MaxDev
  /\ procmtd.desc.lines[MaxLines].n = 0
  /\ info.mtd_dev_cnt = MaxLines

\* C7: on a well-formed listing, legacy_dev_present(n) returns 1 when a line
\* has device number n and 0 when none has.
C7_PresentIffListed ==
  (/\ Done /\ call.op = "legacy_dev_present"
   /\ procmtd.st = "ok" /\ WellFormed(procmtd.desc))
    => ret = (IF call.num \in LineNums(procmtd.desc) THEN 1 ELSE 0)

\* C7's case: the device is found on the last line of a listing, after a
\* line of another device.
C7_Witness ==
  /\ Done /\ call.op = "legacy_dev_present" /\ ret = 1
  /\ WellFormed(procmtd.desc)
  /\ Len(procmtd.desc.lines) = MaxLines
  /\ procmtd.desc.lines[MaxLines].n = call.num
  /\ procmtd.desc.lines[1].n # call.num

\* The listing holds the whole header.
HeaderIntact ==
  /\ procmtd.desc.hdr = "ok"
  /\ Len(procmtd.data) >= PROC_MTD_FIRST_LEN

\* C8: the scanner returns no record from malformed input: no scan starts
\* on a listing without the whole header; a step that fails on an over-long
\* name, a missing closing quote or a missing newline returns an error and
\* leaves the record's name and the cursor as they were; a record returned
\* has a name of at most MTD_NAME_MAX bytes.
C8_NoRecordFromMalformed ==
  /\ (procmtd.st = "ok" /\ ~HeaderIntact) =>
       (pc \notin {"next", "body"} /\ hist.records = 0)
  /\ (pc = "body" /\ hist.err \in {"toolong", "close", "newline"}) =>
       (nret = -1 /\ pi.name = hist.name0 /\ pi.next = hist.next0)
  /\ (pc = "body" /\ nret = 1) => Len(pi.name) <= MTD_NAME_MAX

\* C9: when legacy_get_dev_info returns 0, the descriptor's name is the name
\* of a record that the last step of the rescan returned and whose device
\* number is the descriptor's mtd_num.
C9_NameOfMatchingRecord ==
  (Done /\ fn = "legacy_get_dev_info" /\ ret = 0)
    => /\ nret = 1
       /\ {"mtd_num", "name"} \subseteq pi.set
       /\ pi.mtd_num = mtd.mtd_num
       /\ mtd.name = pi.name

\* The geometry the node reports, as the ints and the long long of the
\* descriptor: one of the three conditions on it fails.
ReportedInsane ==
  LET w == IntOfU32(dev.ui.writesize)
      e == IntOfU32(dev.ui.erasesize)
      s == dev.ui.size
  IN  \/ w <= 0
      \/ e <= 0 \/ e < w
      \/ (s.hi = 0 /\ s.lo = 0) \/ (s.hi = 0 /\ s.lo < e)

\* C10: legacy_get_dev_info fails whenever the reported geometry has
\* min_io_size <= 0, or eb_size <= 0 or eb_size < min_io_size, or size <= 0
\* or size < eb_size; a descriptor returned with success has
\* min_io_size > 0, eb_size >= min_io_size and size >= eb_size.
C10_GeometryValidated ==
  (Done /\ fn = "legacy_get_dev_info")
    => /\ (ReportedInsane => ret = -1)
       /\ (ret = 0 =>
             /\ mtd.min_io_size > 0
             /\ mtd.eb_size >= mtd.min_io_size
             /\ (mtd.size.hi = 1 \/ mtd.size.lo >= mtd.eb_size))

\* C10's case: a geometry that only the test of the erase-unit size against
\* the minimum write unit rejects.
C10_Witness ==
  /\ Done /\ fn = "legacy_get_dev_info" /\ ret = -1
  /\ mtd.min_io_size > 0 /\ mtd.eb_size > 0
  /\ mtd.eb_size < mtd.min_io_size
  /\ (mtd.size.hi = 1 \/ mtd.size.lo >= mtd.eb_size)

\* The remainder of size / e for e > 0; 2^31 is INT_MAX + 1.
LLRem(sz, e) ==
  IF sz.hi = 0 THEN sz.lo % e
  ELSE ((INT_MAX % e) + (sz.lo % e) + 1) % e

\* legacy_get_dev_info has returned 0.
DevInfoSucceeded == Done /\ fn = "legacy_get_dev_info" /\ ret = 0

\* C11: in every descriptor that legacy_get_dev_info returns with success
\* the erase-unit count is exact: eb_cnt is the quotient size / eb_size and
\* the division leaves no remainder, so eb_cnt * eb_size = size.
C11_EraseCountExact ==
  DevInfoSucceeded
    => /\ LLRem(mtd.size, mtd.eb_size) = 0
       /\ LLDiv(mtd.size, mtd.eb_size) = U32(0, mtd.eb_cnt)

\* The geometry the node reports is consistent, over the unsigned values:
\* writesize > 0, erasesize >= writesize, size >= erasesize.
U32Less(a, b) == a.hi < b.hi \/ (a.hi = b.hi /\ a.lo < b.lo)

ConsistentGeometry(u) ==
  /\ U32Less(U32(0, 0), u.writesize)
  /\ ~U32Less(u.erasesize, u.writesize)
  /\ ~U32Less(u.size, u.erasesize)
  /\ u.type \in MtdTypes \ {"MTD_ABSENT"}

\* The node answers every request, and is the node of an MTD device.
NodeAnswers ==
  /\ dev.open = "ok" /\ dev.fstat = "ok" /\ dev.chr
  /\ dev.major = MTD_DEV_MAJOR
  /\ dev.geo = "ok" /\ dev.bb \in {"ok", "EOPNOTSUPP"}

\* The name of the first line of the listing d with device number n.
NameOfNum(d, n) ==
  d.lines[CHOOSE i \in 1..Len(d.lines) :
            /\ d.lines[i].n = n
            /\ \A k \in 1..(i - 1) : d.lines[k].n # n].name

\* C12: round trip.  For a node that reports a consistent geometry and a
\* well-formed listing with a line for the node's device,
\* legacy_get_dev_info succeeds; size, eb_size and min_io_size are the
\* reported size, erasesize and writesize, the name is the line's name and
\* eb_cnt is size / eb_size.
C12_RoundTrip ==
  (/\ Done /\ call.op = "legacy_get_dev_info1"
   /\ NodeAnswers /\ ConsistentGeometry(dev.ui)
   /\ procmtd.st = "ok" /\ WellFormed(procmtd.desc)
   /\ MtdNumOf(MinorOf(call.num)) \in LineNums(procmtd.desc))
    => /\ ret = 0
       /\ mtd.size = dev.ui.size
       /\ U32(0, mtd.eb_size) = dev.ui.erasesize
       /\ U32(0, mtd.min_io_size) = dev.ui.writesize
       /\ mtd.name = NameOfNum(procmtd.desc, MtdNumOf(MinorOf(call.num)))
       /\ U32(0, mtd.eb_cnt) = LLDiv(mtd.size, mtd.eb_size)

\* The lines of the listing d that carry the name nm.
LinesNamed(d, nm) == {i \in 1..Len(d.lines) : d.lines[i].name = nm}

\* Two lines of the listing d carry the same name.
NameShared(d) ==
  \E i, j \in 1..Len(d.lines) : i # j /\ d.lines[i].name = d.lines[j].name

\* The node is that of a device with a sane geometry and a type of the
\* switch, at the minor number of its device.
NodeGood ==
  /\ NodeAnswers /\ ~ReportedInsane
  /\ dev.ui.type \in MtdTypes \ {"MTD_ABSENT"}
  /\ dev.skew = 0

\* C13: on a well-formed listing legacy_get_dev_info2 ends on the name
\* collision only when two or more lines carry the requested name, ends as
\* not found only when no line carries it, and goes on to
\* legacy_get_dev_info1 only when exactly one line carries it, with that
\* line's device number (one of the three happens, so each "only when" is an
\* "if and only if"); with two lines sharing a name, legacy_get_dev_info1
\* for a device number succeeds exactly when a line has that number.
C13_NameResolution ==
  (procmtd.st = "ok" /\ WellFormed(procmtd.desc)) =>
    /\ call.op = "legacy_get_dev_info2" =>
         /\ (fn = "legacy_get_dev_info2" /\ Done /\ nret # 0) =>
              /\ Cardinality(LinesNamed(procmtd.desc, call.name)) >= 2
              /\ ret = -1 /\ errno = "ENODEV"
         /\ (fn = "legacy_get_dev_info2" /\ Done /\ nret = 0) =>
              /\ LinesNamed(procmtd.desc, call.name) = {}
              /\ ret = -1 /\ errno = "ENODEV"
         /\ fn = "legacy_get_dev_info" =>
              /\ Cardinality(LinesNamed(procmtd.desc, call.name)) = 1
              /\ \A i \in LinesNamed(procmtd.desc, call.name) :
                   node = procmtd.desc.lines[i].n
    /\ (/\ call.op = "legacy_get_dev_info1" /\ Done
        /\ NodeGood /\ NameShared(procmtd.desc)) =>
         /\ ret = (IF call.num \in LineNums(procmtd.desc) THEN 0 ELSE -1)
         /\ ret = 0 => mtd.name = NameOfNum(procmtd.desc, call.num)

\* C13's case: the second of two lines that carry the requested name has
\* ended legacy_get_dev_info2.
C13_Witness ==
  /\ call.op = "legacy_get_dev_info2" /\ fn = "legacy_get_dev_info2"
  /\ WellFormed(procmtd.desc)
  /\ Done /\ ret = -1 /\ nret = 1
  /\ Cardinality(LinesNamed(procmtd.desc, call.name)) = 2

\* The node can be opened and examined, so that legacy_get_mtd_oobavail
\* reaches its ioctl request.
ProbeReachesQuery == dev.open = "ok" /\ dev.fstat = "ok" /\ dev.chr

\* C14: legacy_get_mtd_oobavail returns the reported oobavail when the
\* ECCGETLAYOUT request succeeds, the error value -1 for every failure other
\* than a request refused with EOPNOTSUPP, and for that refusal a value that
\* is not the error value.
C14_UnsupportedIsNoError ==
  (Done /\ call.op = "legacy_get_mtd_oobavail1") =>
    IF ProbeReachesQuery /\ dev.ecc = "ok" THEN ret = dev.oobavail
    ELSE IF ProbeReachesQuery /\ dev.ecc = "EOPNOTSUPP" THEN ret # -1
    ELSE ret = -1

\* legacy_get_dev_info has called legacy_get_mtd_oobavail and stored its
\* result.
ProbeDone ==
  fn = "legacy_get_dev_info" /\ pc \in {"start", "next", "body", "done"}
  /\ fds.p # "none"

\* C15: in legacy_get_dev_info no result of legacy_get_mtd_oobavail makes
\* the call fail: once the probe has returned, oobavail is its result when
\* that is positive and 0 otherwise, so never negative, and the call goes on
\* to the listing and returns 0 when the listing is well formed and holds a
\* line for the device.
C15_ProbeOptional ==
  ProbeDone =>
    /\ mtd.oobavail = (IF pret > 0 THEN pret ELSE 0)
    /\ mtd.oobavail >= 0
    /\ (/\ Done /\ procmtd.st = "ok" /\ WellFormed(procmtd.desc)
        /\ mtd.mtd_num \in LineNums(procmtd.desc)) => ret = 0

\* C15's case: the probe has failed, with an error other than EOPNOTSUPP,
\* and the call has returned a descriptor with oobavail 0.
C15_Witness ==
  /\ ProbeDone /\ Done /\ ret = 0
  /\ dev.ecc = "EIO" /\ pret = -1
  /\ mtd.oobavail = 0

\* The steps of legacy_get_dev_info, numbered in the order of the code:
\* 1 open, 2 fstat with the tests of the file type and the major number,
\* 3 MEMGETINFO, 4 MEMGETBADBLOCK, 5 the tests of the geometry and the type,
\* 6 legacy_get_mtd_oobavail, 7 the listing.  StepAt is the step a position
\* belongs to.
StepAt(p) ==
  CASE p = "open" -> 1
    [] p = "stat" -> 2
    [] p = "geometry" -> 3
    [] p = "badblock" -> 4
    [] p = "validate" -> 5
    [] p \in {"probe_open", "probe_stat", "probe_query", "probed"} -> 6
    [] OTHER -> 7

\* The first of the steps 1 to 5 that fails on the node, 8 when none does.
FirstFailure ==
  IF dev.open # "ok" THEN 1
  ELSE IF dev.fstat # "ok" \/ ~dev.chr \/ dev.major # MTD_DEV_MAJOR THEN 2
  ELSE IF dev.geo # "ok" THEN 3
  ELSE IF dev.bb \notin {"ok", "EOPNOTSUPP"} THEN 4
  ELSE IF ReportedInsane \/ dev.ui.type \notin MtdTypes \ {"MTD_ABSENT"} THEN 5
  ELSE 8

\* The first step that fails, the probe counted as a step that can fail.
FirstFailureOrProbe ==
  IF FirstFailure = 8 /\ dev.ecc # "ok" THEN 6 ELSE FirstFailure

\* The scans started before legacy_get_dev_info was entered.
ScansBefore == IF call.op = "legacy_get_dev_info2" THEN 1 ELSE 0

\* legacy_get_dev_info is at a step that no failed step precedes, the node
\* is open from step 2 to step 5 and closed from step 6 on, and a call
\* that has failed at the step f has made no request of a later step.
InOrderUpTo(f) ==
  fn = "legacy_get_dev_info" =>
    /\ pc # "done" => StepAt(pc) <= f
    /\ (pc # "done" /\ StepAt(pc) \in 2..5) => fds.g = "open"
    /\ (pc # "done" /\ StepAt(pc) >= 6) => fds.g = "closed"
    /\ (Done /\ f <= 6) => ret = -1 /\ heap.allocs = ScansBefore
    /\ (Done /\ f <= 5) => fds.p = "none"
    /\ (Done /\ f <= 3) => mtd.bb_allowed = 0
    /\ (Done /\ f <= 2) => ui = UiZero
    /\ (Done /\ f = 1) => fds.g = "none"

\* C16, as stated: legacy_get_dev_info runs its steps in the order open,
\* fstat and tests of the node, MEMGETINFO, MEMGETBADBLOCK, validation and
\* type, probe (after the node was closed), listing; each step runs only
\* after the steps before it succeeded, and once any step has failed, the
\* probe included, no later step runs.
C16_StopsAtAnyFailure == InOrderUpTo(FirstFailureOrProbe)

\* C16, amended: the same order, and once one of the steps before the probe
\* has failed no later step runs; a failure of the probe does not stop the
\* call, which goes on to the listing.
C16_StepsInOrder == InOrderUpTo(FirstFailure)

\* C16's case: MEMGETBADBLOCK has failed with an error other than EOPNOTSUPP
\* after MEMGETINFO succeeded, and the call has returned.
C16_Witness ==
  /\ fn = "legacy_get_dev_info" /\ Done /\ ret = -1
  /\ FirstFailure = 4
  /\ ui = dev.ui /\ fds.g = "closed" /\ fds.p = "none"

\* The least and the greatest device number of the lines of a listing that
\* has lines.
LowestNum(d) == CHOOSE n \in LineNums(d) : \A k \in LineNums(d) : n <= k
HighestNum(d) == CHOOSE n \in LineNums(d) : \A k \in LineNums(d) : n >= k

\* The summary that legacy_mtd_get_info leaves for the listing d when it is
\* given a zero-filled one.
SummaryOf(d) ==
  IF d.lines = <<>> THEN Info(0, INT_MAX, 0)
  ELSE Info(Len(d.lines), LowestNum(d), HighestNum(d))

\* C17: the summary legacy_mtd_get_info leaves depends on the listing only:
\* whatever the summary held on entry, the call leaves on a well-formed
\* listing the values that a call with a zero-filled summary leaves on it.
C17_SummaryIgnoresEntry ==
  (/\ Done /\ call.op = "legacy_mtd_get_info"
   /\ procmtd.st = "ok" /\ WellFormed(procmtd.desc))
    => info = SummaryOf(procmtd.desc)

\* C18: cursor progress.  The cursor of a scan starts at the header's
\* length; a step that returns a record leaves the cursor beyond where it
\* was, and no step leaves it before; so the records returned are at most
\* the bytes the cursor has passed.  The step that finds the cursor at the
\* end of the data frees the buffer and returns 0, and proc_parse_next is
\* not called on a freed buffer.
C18_CursorProgress ==
  /\ (pc = "next" /\ hist.records = 0 /\ ~hist.failed) =>
       pi.next = PROC_MTD_FIRST_LEN
  /\ (pc = "body" /\ nret = 1) => pi.next > hist.next0
  /\ pc = "body" => pi.next >= hist.next0
  /\ pc \in {"next", "body"} =>
       /\ pi.next >= PROC_MTD_FIRST_LEN
       /\ hist.records <= pi.next - PROC_MTD_FIRST_LEN
  /\ (pc = "body" /\ nret = 0) =>
       /\ pi.next >= pi.data_size
       /\ heap.buf = "freed" /\ heap.frees = heap.allocs
  /\ pc = "next" => heap.buf = "live"

\* C18's case: a scan has returned a record for each of its lines and then
\* the end of the data.
C18_Witness ==
  /\ pc = "body" /\ nret = 0
  /\ hist.records = MaxLines
  /\ pi.next = pi.data_size
  /\ heap.buf = "freed"

\* C19: on a listing on which every step of the scan succeeds, with a node
\* at the minor number of its device, a descriptor that
\* legacy_get_dev_info2 returns with success has the requested name, and
\* its mtd_num is the device number of the one line that carries the name.
C19_ByNameReturnsNamed ==
  (/\ call.op = "legacy_get_dev_info2" /\ Done /\ ret = 0
   /\ WellFormed(procmtd.desc) /\ dev.skew = 0)
    => /\ mtd.name = call.name
       /\ Cardinality(LinesNamed(procmtd.desc, call.name)) = 1
       /\ \A i \in LinesNamed(procmtd.desc, call.name) :
            mtd.mtd_num = procmtd.desc.lines[i].n

\* The bytes of the data that the last step of the scan has consumed.
ConsumedBytes ==
  SubSeq(pi.buf, hist.next0 + 1, Min2(pi.next, pi.data_size))

\* The bytes seg hold one line of the listing: no newline before the last
\* byte, and the first quote right after the separator that follows the
\* last digit of the erase-unit size.
OneLine(seg) ==
  /\ \A i \in 1..(Len(seg) - 1) : seg[i] # NL
  /\ \E q \in 3..Len(seg) :
       /\ seg[q] = QUOTE
       /\ \A k \in 1..(q - 1) : seg[k] # QUOTE
       /\ seg[q - 1] = " "
       /\ IsDigit(seg[q - 2], 16)

\* C20: record integrity.  When proc_parse_next returns a record, the bytes
\* it has consumed are one line of the listing: they hold no newline other
\* than the terminator, and nothing but the separator stands between the
\* erase-unit size and the opening quote.
C20_RecordIsOneLine ==
  (pc = "body" /\ nret = 1) => OneLine(ConsumedBytes)

=============================================================================
